---- MODULE Spec2Model ----
(***************************************************************************)
(* rolling_hash_rs: the weak rolling checksum (window_checksum.rs), the    *)
(* signature builder (signature.rs) and the delta scanner (file_diff.rs).  *)
(*                                                                         *)
(* A u32 is written as an integer r standing for the u32 value r when      *)
(* r >= 0 and for r + 2^32 when r < 0 (the value a wrapping subtraction    *)
(* leaves).  Within the bounds below every magnitude stays far under 2^31, *)
(* so the residue is exact, and U32Mod reduces the u32 value it stands     *)
(* for, not the integer r.                                                 *)
(***************************************************************************)
EXTENDS Integers, Sequences, FiniteSets, TLC

\* ------------------------------------------------------------------ bounds
\* Byte values the inputs are drawn from.
Bytes == {0, 1, 2}
\* Longest old buffer handed to get_signature.
MaxOld == 3
\* Longest new buffer handed to generate_diff.
MaxNew == 3
\* Largest block size / chunk_size.
MaxBlock == 2
\* Longest buffer of one add_bytes_at_end call on a stand-alone RollingWindow.
MaxBuf == 2
\* Number of operations applied to a stand-alone RollingWindow.
MaxOps == 3

\* Number of operations of a run over the reference operations of
\* test_rolling_window_checksum.
MaxVecOps == 6

\* Longest window loaded for one slide step, over the byte values SlideBytes.
MaxSlide == 13
SlideBytes == {0, 255}

BytesSeq(n) == UNION {[1..k -> Bytes] : k \in 0..n}

\* Option<u8>: None is <<>>, Some(x) is <<x>>.
None == <<>>
Some(x) == <<x>>
OptionByte == {None} \cup {Some(x) : x \in Bytes}

\* ------------------------------------------------- window_checksum.rs
LARGE_PRIME_MOD == 21191

\* 2^32 mod LARGE_PRIME_MOD, from 2^16 mod LARGE_PRIME_MOD.
TwoPow32Mod ==
    ((65536 % LARGE_PRIME_MOD) * (65536 % LARGE_PRIME_MOD)) % LARGE_PRIME_MOD

\* Mutation of U32Mod: the reduction is left out.
U32ModMissing(r) == r

\* (v % LARGE_PRIME_MOD) for the u32 value v that r stands for.
U32Mod(r) ==
    IF r >= 0 THEN r % LARGE_PRIME_MOD
    ELSE ((r % LARGE_PRIME_MOD) + TwoPow32Mod) % LARGE_PRIME_MOD

\* RollingWindow::generate
generate == [block_sum |-> 0, all_blocks_sum |-> 0, window_size |-> 0]

\* RollingWindow::sha256_digest
sha256_digest(self) ==
    self.block_sum + (self.all_blocks_sum * LARGE_PRIME_MOD)

RECURSIVE SumFrom(_, _)
\* block_size after the for_each over byte_buf[i..]
SumFrom(byte_buf, i) ==
    IF i > Len(byte_buf) THEN 0
    ELSE byte_buf[i] + SumFrom(byte_buf, i + 1)

RECURSIVE WeightedFrom(_, _)
\* all_blocks_size after the for_each: the byte at 0-based index j weighs
\* byte_lengh - j, i.e. Len - (i - 1) at 1-based position i.
WeightedFrom(byte_buf, i) ==
    IF i > Len(byte_buf) THEN 0
    ELSE byte_buf[i] * (Len(byte_buf) - (i - 1)) + WeightedFrom(byte_buf, i + 1)

\* Mutation of add_bytes_at_end: the weighted sum is taken without the
\* byte count of the slice (every byte weighs 1).
AddUnweighted(self, byte_buf) ==
    [block_sum |-> U32Mod(self.block_sum + SumFrom(byte_buf, 1)),
     all_blocks_sum |-> U32Mod(self.all_blocks_sum + SumFrom(byte_buf, 1)),
     window_size |-> U32Mod(self.window_size + Len(byte_buf))]

\* RollingWindow::add_bytes_at_end
add_bytes_at_end(self, byte_buf) ==
    LET block_size == SumFrom(byte_buf, 1)
        all_blocks_size == WeightedFrom(byte_buf, 1)
        byte_lengh == Len(byte_buf)
    IN [block_sum |-> U32Mod(self.block_sum + block_size),
        all_blocks_sum |-> U32Mod(self.all_blocks_sum + all_blocks_size),
        window_size |-> U32Mod(self.window_size + byte_lengh)]

\* next.map_or(0, u32::from)
MapOr0(next) == IF next = None THEN 0 ELSE next[1]

\* The unchecked product window_size * prev exceeds u32: window_size stands
\* for a value above 2^31 exactly when its residue is negative.
MulOverflows(self, prev) == self.window_size < 0 /\ prev >= 2

\* Mutation of roll_window: window_size is decremented on every call, with
\* or without an incoming byte.
RollAlwaysShrinks(self, prev, next) ==
    LET bs == U32Mod(self.block_sum - prev + MapOr0(next))
        abs == U32Mod(self.all_blocks_sum - (self.window_size * prev) + bs)
    IN [block_sum |-> bs,
        all_blocks_sum |-> abs,
        window_size |-> self.window_size - 1]

\* RollingWindow::roll_window (the product taken wrapping)
roll_window(self, prev, next) ==
    LET bs == U32Mod(self.block_sum - prev + MapOr0(next))
        abs == U32Mod(self.all_blocks_sum - (self.window_size * prev) + bs)
    IN [block_sum |-> bs,
        all_blocks_sum |-> abs,
        window_size |-> IF next = None THEN self.window_size - 1
                        ELSE self.window_size]

\* rolling_window_checksum
rolling_window_checksum(chunk) ==
    sha256_digest(add_bytes_at_end(generate, chunk))

\* ------------------------------------------------------- signature.rs
\* chunk_sha256_hash: SHA-256 taken as collision-free, a digest standing
\* for exactly one byte string.
chunk_sha256_hash(chunk) == [sha256 |-> chunk]

\* BlockChunkHashes { index, hash }
BlockChunkHashes(index, hash) == [index |-> index, hash |-> hash]

\* HashMap::new()
EmptyMap == [k \in {} |-> <<>>]

\* pointer_at_last_chunk
pointer_at_last_chunk(chunk_len, buf_len) == chunk_len = buf_len

\* get_signature: the slice taken for block_chunk would run past the buffer
\* (&buffer[..chunk_size] with chunk_size > buffer.len() panics).
SigSliceOutOfRange(buf, chunk_size) ==
    ~(chunk_size < Len(buf)) /\ chunk_size > Len(buf)

\* get_signature: "Extract block of chunk from buffer"
SigBlockChunk(buf, chunk_size) ==
    IF chunk_size < Len(buf) THEN SubSeq(buf, 1, Len(buf))
    ELSE SubSeq(buf, 1, chunk_size)

\* checksum_map.entry(index_hash).or_insert_with(Vec::new).push(record)
MapPush(map, key, rec) ==
    IF key \in DOMAIN map THEN [map EXCEPT ![key] = Append(@, rec)]
    ELSE map @@ (key :> <<rec>>)

\* Mutation of SigAddEntry: the record carries the index after the
\* increment (chunk_index + 1).
SigAddEntryNextIndex(map, block_chunk, index) ==
    MapPush(map, rolling_window_checksum(block_chunk),
            BlockChunkHashes(index + 1, chunk_sha256_hash(block_chunk)))

\* get_signature: "Add entry to signature table"
SigAddEntry(map, block_chunk, index) ==
    MapPush(map, rolling_window_checksum(block_chunk),
            BlockChunkHashes(index, chunk_sha256_hash(block_chunk)))

\* Mutation of Drain: the buffer is left as it is.
DrainNothing(buf, n) == buf

\* Vec::drain(..n)
Drain(buf, n) == SubSeq(buf, n + 1, Len(buf))

\* FileChunkSignature::block_chunk_hashes
block_chunk_hashes(sig, key) ==
    IF key \in DOMAIN sig.checksum_map THEN Some(sig.checksum_map[key]) ELSE None

\* ------------------------------------------------------- file_diff.rs
\* VerifyMatch::Match(u32) and VerifyMatch::NoMatch(Vec<u8>)
Match(index) == [tag |-> "Match", index |-> index, bytes |-> <<>>]
NoMatch(bytes) == [tag |-> "NoMatch", index |-> 0, bytes |-> bytes]

\* Mutation of FindHash: the last record of the bucket with the chunk's
\* strong hash is taken (a search from the back).
FindLastHash(hashes, sha256_checksum_hash) ==
    LET hits == {i \in 1..Len(hashes) : hashes[i].hash = sha256_checksum_hash}
    IN IF hits = {} THEN None
       ELSE Some(hashes[CHOOSE i \in hits : \A j \in hits : i >= j])

\* hashes.iter().find(|h| h.hash == sha256_checksum_hash): the first record
\* of the bucket, in insertion order, with the chunk's strong hash.
FindHash(hashes, sha256_checksum_hash) ==
    LET hits == {i \in 1..Len(hashes) : hashes[i].hash = sha256_checksum_hash}
    IN IF hits = {} THEN None
       ELSE Some(hashes[CHOOSE i \in hits : \A j \in hits : i <= j])

\* Mutation of match_index_and_checksum: the strong hash is not compared,
\* the first record of the weak-hash bucket is taken.
MatchWeakOnly(sig, index_hash, chunk) ==
    LET bucket == block_chunk_hashes(sig, index_hash)
    IN IF bucket # None /\ bucket[1] # <<>> THEN Some(bucket[1][1]) ELSE None

\* match_index_and_checksum: Option<&BlockChunkHashes>
match_index_and_checksum(sig, index_hash, chunk) ==
    LET bucket == block_chunk_hashes(sig, index_hash)
    IN IF bucket # None THEN FindHash(bucket[1], chunk_sha256_hash(chunk))
       ELSE None

\* generate_diff: "De-structure vector buffer to array chunk" (outer loop)
OuterChunk(buf, chunk_size) ==
    IF chunk_size <= Len(buf) THEN SubSeq(buf, 1, chunk_size)
    ELSE SubSeq(buf, 1, Len(buf))

\* Mutation of ScanFinished: the outer loop never breaks on an empty chunk.
ScanNeverFinished(actual) == FALSE

\* generate_diff: "if actual_chunk_size == 0 { break; }"
ScanFinished(actual) == actual = 0

\* Mutation of PushPending: the pending bytes are dropped at the exit.
PushPendingDropped(verifier, bytes) == verifier

\* generate_diff: the rolling loop's exit on an empty buffer pushes the
\* pending bytes, "if !diff_bytes.is_empty()".
PushPending(verifier, bytes) ==
    IF bytes # <<>> THEN Append(verifier, NoMatch(bytes)) ELSE verifier

\* generate_diff: the chunk taken after a roll (inner loop)
InnerChunk(buf, chunk_size) ==
    IF chunk_size < Len(buf) THEN SubSeq(buf, 1, chunk_size)
    ELSE SubSeq(buf, 1, Len(buf))

\* Mutation of PushPrev: the removed front byte is not kept.
PushPrevDropped(bytes, prev) == bytes

\* generate_diff: "diff_bytes.push(prev)"
PushPrev(bytes, prev) == Append(bytes, prev)

\* Mutation of ChunkLenAfterRoll: a full chunk is assumed after every roll.
ChunkLenAssumedFull(buf, chunk_size) == chunk_size

\* generate_diff: "actual_chunk_size = chunk.len()" after a roll
ChunkLenAfterRoll(buf, chunk_size) == Len(InnerChunk(buf, chunk_size))

\* ------------------------------------------------------------- state
VARIABLES
    pc,                 \* position: "get_signature", "outer", "inner",
                        \* "rolled", "done", "panic", or "hash"
    old,                \* the old buffer as handed to get_signature
    buffer,             \* get_signature: buffer (drained in place)
    chunk_index,        \* get_signature: chunk_index
    signature,          \* FileChunkSignature
    new,                \* the new buffer as handed to generate_diff
    new_file_buffer,    \* generate_diff: new_file_buffer (consumed in place)
    chunk_size,         \* generate_diff: chunk_size
    match_verifier,     \* generate_diff: match_verifier
    diff_bytes,         \* generate_diff: diff_bytes
    rolling_sum,        \* generate_diff: rolling_sum; stand-alone: the window
    actual_chunk_size,  \* generate_diff: actual_chunk_size
    win,                \* stand-alone window: the bytes it should cover
    tracked,            \* stand-alone window: every roll dropped win's front
    ops,                \* stand-alone window: operations applied so far
    history             \* stand-alone window: the recorded operations, in order

vars == <<pc, old, buffer, chunk_index, signature, new, new_file_buffer,
          chunk_size, match_verifier, diff_bytes, rolling_sum,
          actual_chunk_size, win, tracked, ops, history>>

sigVars == <<buffer, chunk_index, signature>>
diffVars == <<new_file_buffer, match_verifier, diff_bytes, rolling_sum,
              actual_chunk_size>>
inputVars == <<old, new, chunk_size>>
hashVars == <<win, tracked, ops, history>>

\* ----------------------------------------------- get_signature (steps)
\* One pass of get_signature's loop.  The function returns (pc "outer":
\* write_diff_file then runs generate_diff with the signature's block size)
\* or panics on the out-of-range slice.
SigStep ==
    /\ pc = "get_signature"
    /\ IF SigSliceOutOfRange(buffer, signature.block_chunk_size)
       THEN /\ pc' = "panic"
            /\ UNCHANGED sigVars
       ELSE LET block_chunk == SigBlockChunk(buffer, signature.block_chunk_size)
                chunk_len == Len(block_chunk)
            IN IF chunk_len = 0
               THEN /\ pc' = "outer"
                    /\ UNCHANGED sigVars
               ELSE /\ signature' =
                          [signature EXCEPT !.checksum_map =
                              SigAddEntry(@, block_chunk, chunk_index)]
                    /\ IF pointer_at_last_chunk(chunk_len, Len(buffer))
                       THEN /\ pc' = "outer"
                            /\ UNCHANGED <<buffer, chunk_index>>
                       ELSE /\ buffer' = Drain(buffer, chunk_len)
                            /\ chunk_index' = chunk_index + 1
                            /\ pc' = "get_signature"
    /\ UNCHANGED <<diffVars, inputVars, hashVars>>

\* ----------------------------------------------- generate_diff (steps)
\* One pass of the outer loop up to its break, its continue, or the entry
\* into the rolling loop.
DiffProbe ==
    /\ pc = "outer"
    /\ LET chunk == OuterChunk(new_file_buffer, chunk_size)
           sum == add_bytes_at_end(generate, chunk)
           hash == match_index_and_checksum(signature, sha256_digest(sum), chunk)
       IN IF ScanFinished(Len(chunk))
          THEN /\ pc' = "done"
               /\ UNCHANGED diffVars
          ELSE /\ actual_chunk_size' = Len(chunk)
               /\ rolling_sum' = sum
               /\ IF hash # None
                  THEN /\ match_verifier' = Append(match_verifier, Match(hash[1].index))
                       /\ diff_bytes' = diff_bytes
                       /\ IF pointer_at_last_chunk(Len(chunk), Len(new_file_buffer))
                          THEN /\ pc' = "done"
                               /\ new_file_buffer' = new_file_buffer
                          ELSE /\ pc' = "outer"
                               /\ new_file_buffer' = Drain(new_file_buffer, Len(chunk))
                  ELSE /\ diff_bytes' = <<>>
                       /\ pc' = "inner"
                       /\ UNCHANGED <<match_verifier, new_file_buffer>>
    /\ UNCHANGED <<sigVars, inputVars, hashVars>>

\* The head of one pass of the rolling loop: next is read, the front byte
\* is removed and pushed on diff_bytes, the window is rolled and the chunk
\* retaken; with the buffer empty the pending NoMatch is pushed and the
\* loop left.  new_file_buffer[chunk_size] past the end panics.
DiffRoll ==
    /\ pc = "inner"
    /\ LET buf_len == Len(new_file_buffer)
           reads_next == ~pointer_at_last_chunk(actual_chunk_size, buf_len)
       IN IF reads_next /\ chunk_size + 1 > buf_len
          THEN /\ pc' = "panic"
               /\ UNCHANGED diffVars
          ELSE LET next == IF reads_next THEN Some(new_file_buffer[chunk_size + 1])
                           ELSE None
               IN IF buf_len > 0
                  THEN LET prev == Head(new_file_buffer)
                       IN /\ new_file_buffer' = Tail(new_file_buffer)
                          /\ diff_bytes' = PushPrev(diff_bytes, prev)
                          /\ rolling_sum' = roll_window(rolling_sum, prev, next)
                          /\ actual_chunk_size' =
                                ChunkLenAfterRoll(new_file_buffer', chunk_size)
                          /\ pc' = "rolled"
                          /\ UNCHANGED match_verifier
                  ELSE /\ match_verifier' = PushPending(match_verifier, diff_bytes)
                       /\ pc' = "outer"
                       /\ UNCHANGED <<new_file_buffer, diff_bytes, rolling_sum,
                                      actual_chunk_size>>
    /\ UNCHANGED <<sigVars, inputVars, hashVars>>

\* The rest of the pass: the rolled digest is looked up with the retaken
\* chunk; a hit pushes NoMatch(diff_bytes) and Match, drains the chunk and
\* leaves the rolling loop.
DiffRollProbe ==
    /\ pc = "rolled"
    /\ LET index_hash == sha256_digest(rolling_sum)
           chunk == InnerChunk(new_file_buffer, chunk_size)
           hash == match_index_and_checksum(signature, index_hash, chunk)
       IN IF hash # None
          THEN /\ match_verifier' =
                     Append(Append(match_verifier, NoMatch(diff_bytes)),
                            Match(hash[1].index))
               /\ new_file_buffer' = Drain(new_file_buffer, actual_chunk_size)
               /\ pc' = "outer"
          ELSE /\ pc' = "inner"
               /\ UNCHANGED <<match_verifier, new_file_buffer>>
    /\ UNCHANGED <<diff_bytes, rolling_sum, actual_chunk_size>>
    /\ UNCHANGED <<sigVars, inputVars, hashVars>>

\* -------------------------------------- signature then delta (Spec)
\* write_signature_file's get_signature on an old buffer, then
\* write_diff_file's generate_diff on a new buffer with the signature's
\* block size as chunk_size.
Init ==
    /\ pc = "get_signature"
    /\ old \in BytesSeq(MaxOld)
    /\ new \in BytesSeq(MaxNew)
    /\ chunk_size \in 1..MaxBlock
    /\ buffer = old
    /\ chunk_index = 0
    /\ signature = [block_chunk_size |-> chunk_size, checksum_map |-> EmptyMap]
    /\ new_file_buffer = new
    /\ match_verifier = <<>>
    /\ diff_bytes = <<>>
    /\ rolling_sum = generate
    /\ actual_chunk_size = 0
    /\ win = <<>>
    /\ tracked = TRUE
    /\ ops = 0
    /\ history = <<>>

Next == SigStep \/ DiffProbe \/ DiffRoll \/ DiffRollProbe

Spec == Init /\ [][Next]_vars

\* ------------------------------------- delta on a given signature (SpecDiff)
\* The blocks of a buffer a of block length b >= 1, in order: disjoint,
\* contiguous, the last one possibly shorter.
NumBlocks(a, b) == (Len(a) + b - 1) \div b
BlockBytes(a, b, i) ==
    SubSeq(a, i * b + 1, IF (i + 1) * b < Len(a) THEN (i + 1) * b ELSE Len(a))

RECURSIVE TableOfBlocks(_, _, _)
\* A signature table as the signature file read by write_diff_file may hold
\* it: the first n blocks of a, each entered under its weak hash with its
\* index and strong hash.
TableOfBlocks(a, b, n) ==
    IF n = 0 THEN EmptyMap
    ELSE SigAddEntry(TableOfBlocks(a, b, n - 1), BlockBytes(a, b, n - 1), n - 1)

\* generate_diff called on a new buffer, a chunk_size (0 included) and a
\* deserialized signature whose table indexes the blocks of some old buffer.
InitDiff ==
    /\ pc = "outer"
    /\ old \in BytesSeq(MaxOld)
    /\ new \in BytesSeq(MaxNew)
    /\ chunk_size \in 0..MaxBlock
    /\ buffer = <<>>
    /\ chunk_index = 0
    /\ \E b \in 1..MaxBlock :
          signature = [block_chunk_size |-> chunk_size,
                       checksum_map |-> TableOfBlocks(old, b, NumBlocks(old, b))]
    /\ new_file_buffer = new
    /\ match_verifier = <<>>
    /\ diff_bytes = <<>>
    /\ rolling_sum = generate
    /\ actual_chunk_size = 0
    /\ win = <<>>
    /\ tracked = TRUE
    /\ ops = 0
    /\ history = <<>>

NextDiff == DiffProbe \/ DiffRoll \/ DiffRollProbe

SpecDiff == InitDiff /\ [][NextDiff]_vars

\* generate_diff runs synchronously on one thread: a pass that can be taken
\* is taken.
SpecDiffFair == SpecDiff /\ WF_vars(NextDiff)

\* ------------------------------------- a stand-alone RollingWindow (SpecHash)
\* add_bytes_at_end on the window; win is the byte string the window should
\* cover after it.
HashAdd ==
    /\ pc = "hash"
    /\ ops < MaxOps
    /\ \E byte_buf \in BytesSeq(MaxBuf) :
          /\ rolling_sum' = add_bytes_at_end(rolling_sum, byte_buf)
          /\ win' = win \o byte_buf
    /\ ops' = ops + 1
    /\ UNCHANGED <<pc, tracked, sigVars, inputVars, new_file_buffer,
                   match_verifier, diff_bytes, actual_chunk_size, history>>

\* roll_window on the window with any prev and next.  The unchecked product
\* window_size * prev either wraps (release build) or panics (debug build)
\* when it exceeds u32.  The window stays tracked while prev is the front
\* byte of win.
HashRoll ==
    /\ pc = "hash"
    /\ ops < MaxOps
    /\ \E prev \in Bytes, next \in OptionByte :
          /\ \/ /\ rolling_sum' = roll_window(rolling_sum, prev, next)
                /\ pc' = pc
             \/ /\ MulOverflows(rolling_sum, prev)
                /\ rolling_sum' = rolling_sum
                /\ pc' = "panic"
          /\ tracked' = (tracked /\ win # <<>> /\ prev = Head(win))
          /\ win' = IF tracked' THEN Tail(win) \o next ELSE <<>>
    /\ ops' = ops + 1
    /\ UNCHANGED <<sigVars, inputVars, new_file_buffer, match_verifier,
                   diff_bytes, actual_chunk_size, history>>

InitHash ==
    /\ pc = "hash"
    /\ old = <<>>
    /\ new = <<>>
    /\ chunk_size = 0
    /\ buffer = <<>>
    /\ chunk_index = 0
    /\ signature = [block_chunk_size |-> 0, checksum_map |-> EmptyMap]
    /\ new_file_buffer = <<>>
    /\ match_verifier = <<>>
    /\ diff_bytes = <<>>
    /\ rolling_sum = generate
    /\ actual_chunk_size = 0
    /\ win = <<>>
    /\ tracked = TRUE
    /\ ops = 0
    /\ history = <<>>

NextHash == HashAdd \/ HashRoll

SpecHash == InitHash /\ [][NextHash]_vars

\* ------------------- the reference operations on a RollingWindow (SpecVec)
\* A recorded operation.
OpAdd(byte_buf) == [op |-> "add", buf |-> byte_buf, prev |-> 0, next |-> None]
OpRoll(prev, next) == [op |-> "roll", buf |-> <<>>, prev |-> prev, next |-> next]

\* The slices and the (prev, next) pairs of test_rolling_window_checksum:
\* "abcd", "efgh"; (1, 'i'), (2, 'j'), (3, 'k'), (4, None).
VecBufs == {<<97, 98, 99, 100>>, <<101, 102, 103, 104>>}
VecRolls == {<<1, Some(105)>>, <<2, Some(106)>>, <<3, Some(107)>>, <<4, None>>}

\* add_bytes_at_end with one of the reference slices, recorded.
VecAdd ==
    /\ pc = "vec"
    /\ ops < MaxVecOps
    /\ \E byte_buf \in VecBufs :
          /\ rolling_sum' = add_bytes_at_end(rolling_sum, byte_buf)
          /\ history' = Append(history, OpAdd(byte_buf))
    /\ ops' = ops + 1
    /\ UNCHANGED <<pc, win, tracked, sigVars, inputVars, new_file_buffer,
                   match_verifier, diff_bytes, actual_chunk_size>>

\* roll_window with one of the reference pairs, recorded; the unchecked
\* product wraps or panics as in HashRoll.
VecRoll ==
    /\ pc = "vec"
    /\ ops < MaxVecOps
    /\ \E r \in VecRolls :
          /\ \/ /\ rolling_sum' = roll_window(rolling_sum, r[1], r[2])
                /\ pc' = pc
             \/ /\ MulOverflows(rolling_sum, r[1])
                /\ rolling_sum' = rolling_sum
                /\ pc' = "panic"
          /\ history' = Append(history, OpRoll(r[1], r[2]))
    /\ ops' = ops + 1
    /\ UNCHANGED <<win, tracked, sigVars, inputVars, new_file_buffer,
                   match_verifier, diff_bytes, actual_chunk_size>>

InitVec ==
    /\ pc = "vec"
    /\ old = <<>>
    /\ new = <<>>
    /\ chunk_size = 0
    /\ buffer = <<>>
    /\ chunk_index = 0
    /\ signature = [block_chunk_size |-> 0, checksum_map |-> EmptyMap]
    /\ new_file_buffer = <<>>
    /\ match_verifier = <<>>
    /\ diff_bytes = <<>>
    /\ rolling_sum = generate
    /\ actual_chunk_size = 0
    /\ win = <<>>
    /\ tracked = TRUE
    /\ ops = 0
    /\ history = <<>>

NextVec == VecAdd \/ VecRoll

SpecVec == InitVec /\ [][NextVec]_vars

\* ------------------------- one slide step of a loaded window (SpecSlide)
\* A fresh RollingWindow is loaded with the window win by one
\* add_bytes_at_end.
SlideLoad ==
    /\ pc = "slide"
    /\ rolling_sum' = add_bytes_at_end(generate, win)
    /\ history' = <<OpAdd(win)>>
    /\ pc' = "loaded"
    /\ UNCHANGED <<win, tracked, ops, sigVars, inputVars, new_file_buffer,
                   match_verifier, diff_bytes, actual_chunk_size>>

\* roll_window(win[0], next) on the loaded window: the front byte leaves
\* win and next, when given, enters at the back.
SlideRoll ==
    /\ pc = "loaded"
    /\ \E next \in {None} \cup {Some(x) : x \in SlideBytes} :
          /\ rolling_sum' = roll_window(rolling_sum, Head(win), next)
          /\ win' = Tail(win) \o next
          /\ history' = Append(history, OpRoll(Head(win), next))
    /\ pc' = "slid"
    /\ UNCHANGED <<tracked, ops, sigVars, inputVars, new_file_buffer,
                   match_verifier, diff_bytes, actual_chunk_size>>

InitSlide ==
    /\ pc = "slide"
    /\ old = <<>>
    /\ new = <<>>
    /\ chunk_size = 0
    /\ buffer = <<>>
    /\ chunk_index = 0
    /\ signature = [block_chunk_size |-> 0, checksum_map |-> EmptyMap]
    /\ new_file_buffer = <<>>
    /\ match_verifier = <<>>
    /\ diff_bytes = <<>>
    /\ rolling_sum = generate
    /\ actual_chunk_size = 0
    /\ win \in UNION {[1..k -> SlideBytes] : k \in 1..MaxSlide}
    /\ tracked = TRUE
    /\ ops = 0
    /\ history = <<>>

NextSlide == SlideLoad \/ SlideRoll

SpecSlide == InitSlide /\ [][NextSlide]_vars

\* ------------------------------------------------------------ claims
\* What a delta stands for: Match(i) is block i of the old buffer a cut in
\* blocks of b bytes, NoMatch(bytes) is bytes.
RECURSIVE Expand(_, _, _)
Expand(delta, a, b) ==
    IF delta = <<>> THEN <<>>
    ELSE (IF delta[1].tag = "Match"
          THEN (IF delta[1].index < NumBlocks(a, b)
                THEN BlockBytes(a, b, delta[1].index) ELSE <<>>)
          ELSE delta[1].bytes)
         \o Expand(Tail(delta), a, b)

\* get_signature has returned (the delta scan has started or ended).
SigReturned == pc \in {"outer", "inner", "rolled", "done"}

\* The records of the table, each with the key of its bucket.
Records(map) ==
    UNION {{<<k, map[k][i]>> : i \in 1..Len(map[k])} : k \in DOMAIN map}

\* Number of records over all buckets.
RECURSIVE SumLen(_, _)
SumLen(map, keys) ==
    IF keys = {} THEN 0
    ELSE LET k == CHOOSE x \in keys : TRUE
         IN Len(map[k]) + SumLen(map, keys \ {k})

\* The window of buffer n probed at 0-based offset p with chunk size c.
WindowAt(n, p, c) ==
    SubSeq(n, p + 1, IF p + c < Len(n) THEN p + c ELSE Len(n))

\* Some record of the table carries the strong hash of chunk.
StrongHit(map, chunk) ==
    \E r \in Records(map) : r[2].hash = chunk_sha256_hash(chunk)

\* C1 Delta soundness: when get_signature(old, B) has returned and
\* generate_diff(new, sig, B) has returned, expanding the delta left to
\* right (Match(i) as block i of old, NoMatch(bytes) as bytes) gives new.
C1_DeltaSoundness ==
    pc = "done" => Expand(match_verifier, old, chunk_size) = new

\* C1 witness: a returned delta holding both a Match and a NoMatch record.
C1_Witness ==
    /\ pc = "done"
    /\ \E i \in 1..Len(match_verifier) : match_verifier[i].tag = "Match"
    /\ \E i \in 1..Len(match_verifier) : match_verifier[i].tag = "NoMatch"

\* C2 Weak-hash consistency: a window brought to contents win by any
\* sequence of add_bytes_at_end and front-dropping roll_window calls has the
\* digest of a fresh window after one add_bytes_at_end(win).
C2_WeakHashConsistency ==
    (pc = "hash" /\ tracked) =>
        sha256_digest(rolling_sum) = rolling_window_checksum(win)

\* C3 Scanner rolling invariant: after every roll_window call of
\* generate_diff's rolling search the digest of rolling_sum is the checksum
\* computed from scratch on the current window, the first
\* min(chunk_size, remaining) bytes of the remaining buffer.
C3_RollingInvariant ==
    pc = "rolled" =>
        sha256_digest(rolling_sum) =
            rolling_window_checksum(InnerChunk(new_file_buffer, chunk_size))

\* C4 Identity: for a non-empty old buffer and new = old the delta is
\* exactly Match(0), Match(1), ..., Match(K-1), K = ceil(|old| / B).
C4_Identity ==
    (pc = "done" /\ old # <<>> /\ new = old) =>
        match_verifier =
            [i \in 1..NumBlocks(old, chunk_size) |-> Match(i - 1)]

\* C5 Signature coverage: the table get_signature returns holds K records
\* over all buckets, K = ceil(|old| / B), with indices exactly 0..K-1.
C5_SignatureCoverage ==
    SigReturned =>
        /\ SumLen(signature.checksum_map, DOMAIN signature.checksum_map)
              = NumBlocks(old, chunk_size)
        /\ {r[2].index : r \in Records(signature.checksum_map)}
              = 0..(NumBlocks(old, chunk_size) - 1)

\* C6 Signature block records: every record of the returned table sits
\* under the weak hash of block record.index of old (B bytes from offset
\* index * B, the last block possibly shorter) and carries the strong hash
\* of those bytes.
C6_SignatureBlockRecords ==
    SigReturned =>
        \A r \in Records(signature.checksum_map) :
            /\ r[2].index < NumBlocks(old, chunk_size)
            /\ r[1] = rolling_window_checksum(
                          BlockBytes(old, chunk_size, r[2].index))
            /\ r[2].hash = chunk_sha256_hash(
                               BlockBytes(old, chunk_size, r[2].index))

\* C7 Empty or short old file: get_signature on a buffer shorter than the
\* block size (the empty buffer included) does not fail, and on the empty
\* buffer it returns an empty table.
C7_ShortOldFile ==
    Len(old) < chunk_size =>
        /\ pc # "panic"
        /\ (SigReturned /\ old = <<>>) => DOMAIN signature.checksum_map = {}

\* C8 No-match delta: with a block size > 0, a non-empty new buffer and a
\* table that is empty or holds no record with the strong hash of any
\* window the scan probes, generate_diff returns exactly <<NoMatch(new)>>.
C8_NoMatchDelta ==
    (/\ pc = "done"
     /\ chunk_size > 0
     /\ new # <<>>
     /\ \/ DOMAIN signature.checksum_map = {}
        \/ \A p \in 0..Len(new) :
              ~StrongHit(signature.checksum_map, WindowAt(new, p, chunk_size)))
    => match_verifier = <<NoMatch(new)>>

\* C8 witness: the scan of a new buffer of two or more bytes against an
\* empty table has returned the single NoMatch record.
C8_Witness ==
    /\ pc = "done"
    /\ Len(new) >= 2
    /\ DOMAIN signature.checksum_map = {}
    /\ match_verifier = <<NoMatch(new)>>

\* C9 Empty new file: generate_diff on an empty new buffer, whatever the
\* signature and chunk_size, goes from its first probe straight to its
\* return and records nothing: the delta is empty.
C9_EmptyNewFile ==
    new = <<>> => (pc \in {"outer", "done"} /\ match_verifier = <<>>)

\* C9 witness: generate_diff has returned the empty delta for an empty new
\* buffer against a non-empty table with a block size > 0.
C9_Witness ==
    /\ pc = "done"
    /\ new = <<>>
    /\ chunk_size > 0
    /\ DOMAIN signature.checksum_map # {}
    /\ match_verifier = <<>>

\* C10 Prefix insertion: for |old| = K * B and new = P \o old with P
\* non-empty and no window of new at an offset < |P| equal to a block of
\* old, the delta is NoMatch(P) followed by Match records only, which cover
\* old block by block.
C10_PrefixInsertion ==
    (/\ pc = "done"
     /\ Len(old) % chunk_size = 0
     /\ Len(new) > Len(old)
     /\ SubSeq(new, Len(new) - Len(old) + 1, Len(new)) = old
     /\ \A p \in 0..(Len(new) - Len(old) - 1) :
           \A i \in 0..(NumBlocks(old, chunk_size) - 1) :
               WindowAt(new, p, chunk_size) # BlockBytes(old, chunk_size, i))
    => /\ match_verifier # <<>>
       /\ match_verifier[1] = NoMatch(SubSeq(new, 1, Len(new) - Len(old)))
       /\ \A i \in 2..Len(match_verifier) : match_verifier[i].tag = "Match"
       /\ Expand(Tail(match_verifier), old, chunk_size) = old

\* Sum of f over the index set S.
RECURSIVE Sigma(_, _)
Sigma(f, S) ==
    IF S = {} THEN 0
    ELSE LET i == CHOOSE x \in S : TRUE
         IN f[i] + Sigma(f, S \ {i})

\* The state the claim gives for add_bytes_at_end(buf) from (a, b, n), with
\* k = |buf| and buf[i] the byte at 0-based index i; n + k is a u32 sum.
RefAdd(self, buf) ==
    LET k == Len(buf)
        I == 0..(k - 1)
    IN [block_sum |->
            (self.block_sum + Sigma([i \in I |-> buf[i + 1]], I)) % 21191,
        all_blocks_sum |->
            (self.all_blocks_sum
                + Sigma([i \in I |-> buf[i + 1] * (k - i)], I)) % 21191,
        window_size |-> U32Mod(self.window_size + k)]

\* The recorded operations of test_rolling_window_checksum, in order.
VecRun ==
    <<OpAdd(<<97, 98, 99, 100>>), OpAdd(<<101, 102, 103, 104>>),
      OpRoll(1, Some(105)), OpRoll(2, Some(106)), OpRoll(3, Some(107)),
      OpRoll(4, None)>>

\* The reference values along VecRun.
VecValues ==
    /\ sha256_digest(rolling_sum)
          = rolling_sum.block_sum + rolling_sum.all_blocks_sum * 21191
    /\ history = <<>> => sha256_digest(rolling_sum) = 0
    /\ history = SubSeq(VecRun, 1, 1) =>
          (rolling_sum.window_size = 4 /\ sha256_digest(rolling_sum) = 20767574)
    /\ history = SubSeq(VecRun, 1, 2) =>
          (rolling_sum.window_size = 8 /\ sha256_digest(rolling_sum) = 42382804)
    /\ history = SubSeq(VecRun, 1, 3) =>
          (rolling_sum.window_size = 8 /\ sha256_digest(rolling_sum) = 61454808)
    /\ history = VecRun =>
          (rolling_sum.window_size = 7 /\ sha256_digest(rolling_sum) = 128588100)

\* C11 Append reference values: every add_bytes_at_end(buf) takes (a, b, n)
\* to ((a + sum buf[i]) mod 21191, (b + sum buf[i]*(k - i)) mod 21191,
\* (n + k) mod 21191), the digest is a + b*21191, and along the run "abcd",
\* "efgh", roll(1,'i'), roll(2,'j'), roll(3,'k'), roll(4,None) the window
\* lengths and digests are 0; 4, 20767574; 8, 42382804; 8, 61454808; and at
\* the end 7, 128588100.
C11_AppendReferenceValues ==
    /\ [](pc = "vec" => VecValues)
    /\ [][(Len(history') = Len(history) + 1
            /\ history'[Len(history')].op = "add")
          => rolling_sum' = RefAdd(rolling_sum, history'[Len(history')].buf)]_vars

\* C11 witness: the whole reference run has been applied and left the
\* window at length 7 with digest 128588100.
C11_Witness ==
    /\ pc = "vec"
    /\ history = VecRun
    /\ rolling_sum.window_size = 7
    /\ sha256_digest(rolling_sum) = 128588100

\* C12 Zero block size is surfaced: with a signature whose block_chunk_size
\* is 0 and a non-empty new buffer, delta construction does not return a
\* delta (it ends in an error instead).
C12_ZeroBlockSizeSurfaced ==
    (signature.block_chunk_size = 0 /\ chunk_size = 0 /\ new # <<>>)
        => pc # "done"

\* C13 Non-empty literals: every NoMatch record generate_diff has pushed
\* carries at least one byte.
C13_NonEmptyLiterals ==
    (pc \in {"outer", "inner", "rolled", "done"}) =>
        \A i \in 1..Len(match_verifier) :
            match_verifier[i].tag = "NoMatch" => Len(match_verifier[i].bytes) >= 1

\* C13 witness: a returned delta with a NoMatch record followed by the
\* Match the rolling search found.
C13_Witness ==
    /\ pc = "done"
    /\ \E i \in 1..(Len(match_verifier) - 1) :
          /\ match_verifier[i].tag = "NoMatch"
          /\ match_verifier[i + 1].tag = "Match"

\* C14 Match indices in range: every Match(i) generate_diff pushes on the
\* signature get_signature(old, B) returned has i < K = ceil(|old| / B).
C14_MatchIndexInRange ==
    SigReturned =>
        \A i \in 1..Len(match_verifier) :
            match_verifier[i].tag = "Match" =>
                match_verifier[i].index < NumBlocks(old, chunk_size)

\* C14 witness: a returned delta holding a Match record.
C14_Witness ==
    /\ pc = "done"
    /\ \E i \in 1..Len(match_verifier) : match_verifier[i].tag = "Match"

\* C15 Single slide step: for a window w of n >= 1 bytes loaded by one
\* add_bytes_at_end on a fresh RollingWindow, roll_window(w[0], Some(x))
\* leaves window_size = n and the digest of a fresh window loaded with
\* w[1..] ++ [x]; roll_window(w[0], None) leaves window_size = n - 1.
C15_SingleSlideStep ==
    pc = "slid" =>
        LET n == Len(history[1].buf)
            next == history[2].next
        IN IF next # None
           THEN /\ rolling_sum.window_size = n
                /\ sha256_digest(rolling_sum) = rolling_window_checksum(win)
           ELSE rolling_sum.window_size = n - 1

\* What one step of the scan does to the remaining buffer: an outer pass
\* stops, drains a matched window of >= 1 bytes, or enters the rolling loop;
\* a rolling pass removes one byte (and on a hit drains the matched window
\* of >= 1 bytes besides) or, on an empty buffer, stops the rolling loop.
PassShortens ==
    /\ pc = "outer" =>
          \/ pc' = "done"
          \/ pc' = "inner" /\ new_file_buffer' = new_file_buffer
          \/ pc' = "outer" /\ Len(new_file_buffer') < Len(new_file_buffer)
    /\ pc = "inner" =>
          \/ pc' = "rolled" /\ Len(new_file_buffer') = Len(new_file_buffer) - 1
          \/ pc' = "outer" /\ new_file_buffer = <<>> /\ new_file_buffer' = <<>>
    /\ pc = "rolled" =>
          \/ pc' = "inner" /\ new_file_buffer' = new_file_buffer
          \/ /\ pc' = "outer"
             /\ actual_chunk_size >= 1
             /\ Len(new_file_buffer')
                   = Len(new_file_buffer) - actual_chunk_size

\* C16 Termination of the scan: generate_diff returns, and every pass of its
\* outer loop and of its rolling loop either stops or strictly shortens the
\* remaining buffer (by 1 on a roll, by the matched window length >= 1 on a
\* match).
C16_ScanTerminates ==
    /\ <>(pc = "done")
    /\ [][PassShortens]_vars

\* C16 witness: a scan of a longest new buffer has returned after both a
\* match and a rolling search.
C16_Witness ==
    /\ pc = "done"
    /\ Len(new) = MaxNew
    /\ \E i \in 1..Len(match_verifier) : match_verifier[i].tag = "Match"
    /\ \E i \in 1..Len(match_verifier) : match_verifier[i].tag = "NoMatch"

\* The outcome the claim gives for a lookup of chunk under the weak hash
\* key: with no record of the bucket carrying the chunk's strong hash (no
\* bucket included) nothing is pushed; otherwise base is extended by Match
\* of the index of the first such record in insertion order.
LookupOutcome(key, chunk, base) ==
    LET map == signature.checksum_map
        bucket == IF key \in DOMAIN map THEN map[key] ELSE <<>>
        strong == chunk_sha256_hash(chunk)
        firsts == {i \in 1..Len(bucket) :
                      /\ bucket[i].hash = strong
                      /\ \A j \in 1..(i - 1) : bucket[j].hash # strong}
    IN IF firsts = {} THEN match_verifier' = match_verifier
       ELSE \A i \in firsts :
               match_verifier' = Append(base, Match(bucket[i].index))

\* C17 First candidate wins: the aligned probe and the rolling search push
\* Match with the index of the first record, in bucket insertion order,
\* whose strong hash is the window's, and push no Match on a bucket hit
\* without strong-hash equality.
C17_FirstCandidateWins ==
    [][/\ (pc = "outer" /\ OuterChunk(new_file_buffer, chunk_size) # <<>>) =>
            LookupOutcome(
                rolling_window_checksum(OuterChunk(new_file_buffer, chunk_size)),
                OuterChunk(new_file_buffer, chunk_size), match_verifier)
       /\ pc = "rolled" =>
            LookupOutcome(
                sha256_digest(rolling_sum),
                InnerChunk(new_file_buffer, chunk_size),
                Append(match_verifier, NoMatch(diff_bytes)))]_vars

\* C17 witness: a Match was pushed with the index of a record that has a
\* later record of the same bucket with the same strong hash.
C17_Witness ==
    \E r1 \in Records(signature.checksum_map) :
        \E r2 \in Records(signature.checksum_map) :
            /\ r1[1] = r2[1]
            /\ r1[2].hash = r2[2].hash
            /\ r1[2].index < r2[2].index
            /\ \E i \in 1..Len(match_verifier) :
                  match_verifier[i] = Match(r1[2].index)

\* min(chunk_size, remaining buffer length): the length of the live window
LiveWindowLen ==
    IF chunk_size < Len(new_file_buffer) THEN chunk_size
    ELSE Len(new_file_buffer)

\* C18 No window-length underflow in the scanner: whenever the rolling loop
\* is about to call roll_window (the buffer is non-empty), window_size is
\* the length of the live window and is > 0; window_size never stands for
\* a value below 0 (a wrapped u32, negative as a residue).
C18_NoWindowUnderflow ==
    /\ rolling_sum.window_size >= 0
    /\ (pc = "inner" /\ new_file_buffer # <<>>) =>
          /\ rolling_sum.window_size = LiveWindowLen
          /\ rolling_sum.window_size > 0

\* C18 witness: the shrinking branch has acted (the window is shorter than
\* chunk_size after a roll with next = None) and a further roll is due.
C18_Witness ==
    /\ pc = "inner"
    /\ new_file_buffer # <<>>
    /\ diff_bytes # <<>>
    /\ rolling_sum.window_size < chunk_size

\* v <= 2^32 - 1 for a value v computed without wrapping: v is not negative
\* and its upper half fits 16 bits.
FitsU32(v) == v >= 0 /\ (v \div 65536) < 65536

\* C19 Bounded hash state: after any sequence of add_bytes_at_end and
\* roll_window calls on a fresh window block_sum and all_blocks_sum are
\* below 21191 (as u32 values: residues in 0..21190), and the product and
\* the sum of sha256_digest stay within 2^32 - 1.
C19_BoundedHashState ==
    /\ rolling_sum.block_sum >= 0
    /\ rolling_sum.block_sum < 21191
    /\ rolling_sum.all_blocks_sum >= 0
    /\ rolling_sum.all_blocks_sum < 21191
    /\ FitsU32(rolling_sum.all_blocks_sum * 21191)
    /\ FitsU32(rolling_sum.block_sum + (rolling_sum.all_blocks_sum * 21191))

\* C19 witness: add_bytes_at_end has built a window and a roll_window call
\* took block_sum below zero, wrapping it before the reduction.
C19_Witness ==
    /\ pc = "hash"
    /\ ~tracked
    /\ rolling_sum.window_size = 1
    /\ rolling_sum.block_sum > 21191 \div 2

\* C20 No out-of-range access in the scan: with chunk_size > 0 no step of
\* generate_diff panics on an index; the rolling loop reads
\* new_file_buffer[chunk_size] (pointer_at_last_chunk false) only with the
\* buffer longer than chunk_size, the length it drains on a rolled hit is at
\* most the remaining length, and the front byte is removed only from a
\* non-empty buffer.
C20_NoOutOfRangeAccess ==
    /\ [](chunk_size > 0 =>
            /\ pc # "panic"
            /\ (/\ pc = "inner"
                /\ ~pointer_at_last_chunk(actual_chunk_size, Len(new_file_buffer)))
                  => Len(new_file_buffer) > chunk_size
            /\ pc = "rolled" => actual_chunk_size <= Len(new_file_buffer))
    /\ [][(chunk_size > 0 /\ pc = "inner" /\ pc' = "rolled") =>
             /\ new_file_buffer # <<>>
             /\ new_file_buffer' = Tail(new_file_buffer)]_vars

\* C20 witness: the rolling loop read a next byte, went on rolling and
\* retook a chunk shorter than chunk_size from a non-empty buffer.
C20_Witness ==
    /\ pc = "rolled"
    /\ chunk_size > 0
    /\ Len(diff_bytes) >= 2
    /\ new_file_buffer # <<>>
    /\ actual_chunk_size < chunk_size

====
